---- MODULE Spec2Model ----
(***************************************************************************)
(* TradingAgent.decide_trade / _execute_trades of                          *)
(* src/src/agent/decision_maker.py as a state machine.                     *)
(*                                                                         *)
(* Strings are sequences of one-character strings, so that upper(),        *)
(* lower() and replace() are computed and not assumed.  Money is counted   *)
(* in whole USDC, size_pct in hundredths (0.05 is 5), a notional in        *)
(* hundredths of a USDC, and an order size is the exact fraction           *)
(* num / den; Python's floats are modelled by this exact arithmetic.       *)
(* The entries of trade_decisions are drawn as the for loop reaches them.  *)
(* The loop body ends at pc = "end" with its locals as Python leaves them; *)
(* they are dead there, and the step back to the loop head clears them.    *)
(* Account.from_key and Exchange(...) answer as the libraries decide; the  *)
(* "0x" prefix of the key and the account address, which no branch reads,  *)
(* are left out.  outcomes holds the log lines: the code returns no list.  *)
(***************************************************************************)
EXTENDS Integers, Sequences, FiniteSets

VARIABLES
    DRY_RUN,        \* os.environ["DRY_RUN"], once line 52 has read it
    HL_ENV,         \* os.environ["HYPERLIQUID_ENVIRONMENT"], once read (line 63)
    PRIVATE_KEY,    \* os.environ["HYPERLIQUID_PRIVATE_KEY"], once read (line 72)
    pc,             \* position of the call of decide_trade
    response,       \* the kind of answer the oracle gave, "none" before
    n,              \* len(decision["trade_decisions"])
    i,              \* number of entries the for loop has taken
    trade,          \* the entry the loop is at
    action, symbol, is_buy, size_pct, leverage,   \* locals, lines 106-113
    lev_result,     \* what update_leverage answered (line 117), "none" before
    price, usdc, usdc_to_use, sz,                 \* locals, lines 122-141
    exchange,       \* TRUE once Exchange(...) was constructed
    calls,          \* exchange calls issued, <<entry index, operation>>
    outcomes,       \* what was logged, <<entry index, status, detail>>
    escaped         \* the exception that left decide_trade, "none" if none

vars == <<DRY_RUN, HL_ENV, PRIVATE_KEY, pc, response, n, i, trade, action, symbol, is_buy,
          size_pct, leverage, lev_result, price, usdc, usdc_to_use, sz, exchange,
          calls,
          outcomes, escaped>>

MaxBatch == 2

----------------------------------------------------------------------------
(* Python values *)

Unread == [kind |-> "unread", s |-> <<>>, v |-> 0]
Missing == [kind |-> "missing", s |-> <<>>, v |-> 0]
None == [kind |-> "none", s |-> <<>>, v |-> 0]
Str(s) == [kind |-> "str", s |-> s, v |-> 0]
Num(v) == [kind |-> "num", s |-> <<>>, v |-> v]

LowerLetters == <<"a","b","c","d","e","f","g","h","i","j","k","l","m",
                  "n","o","p","q","r","s","t","u","v","w","x","y","z">>
UpperLetters == <<"A","B","C","D","E","F","G","H","I","J","K","L","M",
                  "N","O","P","Q","R","S","T","U","V","W","X","Y","Z">>

UpperChar(c) ==
    IF \E k \in 1..Len(LowerLetters) : LowerLetters[k] = c
    THEN UpperLetters[CHOOSE k \in 1..Len(LowerLetters) : LowerLetters[k] = c]
    ELSE c

LowerChar(c) ==
    IF \E k \in 1..Len(UpperLetters) : UpperLetters[k] = c
    THEN LowerLetters[CHOOSE k \in 1..Len(UpperLetters) : UpperLetters[k] = c]
    ELSE c

\* str.upper(), str.lower()
PyUpper(s) == [k \in 1..Len(s) |-> UpperChar(s[k])]
PyLower(s) == [k \in 1..Len(s) |-> LowerChar(s[k])]

\* s[k:].startswith(pat), k counted from 1
MatchAt(s, pat, k) ==
    /\ k + Len(pat) - 1 <= Len(s)
    /\ \A j \in 1..Len(pat) : s[k + j - 1] = pat[j]

\* str.replace(pat, ""): every occurrence, left to right, without overlap
RECURSIVE RemoveFrom(_, _, _)
RemoveFrom(s, pat, k) ==
    IF k > Len(s) THEN <<>>
    ELSE IF MatchAt(s, pat, k) THEN RemoveFrom(s, pat, k + Len(pat))
    ELSE <<s[k]>> \o RemoveFrom(s, pat, k + 1)

PyRemove(s, pat) == RemoveFrom(s, pat, 1)

\* str.isdigit() and the value of a string of digits
Digits == <<"0","1","2","3","4","5","6","7","8","9">>
IsDigits(s) == Len(s) > 0 /\ \A k \in 1..Len(s) : \E d \in 1..10 : Digits[d] = s[k]
DigitValue(c) == (CHOOSE d \in 1..10 : Digits[d] = c) - 1

RECURSIVE DigitsValue(_, _)
DigitsValue(s, k) ==
    IF k = 0 THEN 0 ELSE 10 * DigitsValue(s, k - 1) + DigitValue(s[k])

\* float(x) of line 112, in hundredths: a number, or a string of digits;
\* anything else raises ValueError or TypeError
PyFloat(x) ==
    CASE x.kind = "num" -> [ok |-> TRUE, v |-> x.v, err |-> ""]
      [] x.kind = "str" /\ IsDigits(x.s) ->
             [ok |-> TRUE, v |-> 100 * DigitsValue(x.s, Len(x.s)), err |-> ""]
      [] x.kind = "str" -> [ok |-> FALSE, v |-> 0, err |-> "ValueError"]
      [] OTHER -> [ok |-> FALSE, v |-> 0, err |-> "TypeError"]

\* int(x) of line 113
PyInt(x) ==
    CASE x.kind = "num" -> [ok |-> TRUE, v |-> x.v, err |-> ""]
      [] x.kind = "str" /\ IsDigits(x.s) ->
             [ok |-> TRUE, v |-> DigitsValue(x.s, Len(x.s)), err |-> ""]
      [] x.kind = "str" -> [ok |-> FALSE, v |-> 0, err |-> "ValueError"]
      [] OTHER -> [ok |-> FALSE, v |-> 0, err |-> "TypeError"]

Min(a, b) == IF a <= b THEN a ELSE b

----------------------------------------------------------------------------
(* The decisions of _execute_trades *)

\* IsDryRun without lower()
IsDryRunCaseSensitive(env) ==
    LET v == IF env.kind = "missing" THEN <<"t","r","u","e">> ELSE env.s
    IN  v \in {<<"t","r","u","e">>, <<"1">>, <<"y","e","s">>}

\* line 52: os.getenv("DRY_RUN", "true").lower() in ("true", "1", "yes")
IsDryRun(env) ==
    LET v == IF env.kind = "missing" THEN <<"t","r","u","e">> ELSE env.s
    IN  PyLower(v) \in {<<"t","r","u","e">>, <<"1">>, <<"y","e","s">>}

\* EnvError with any set value accepted, as the default of line 60 did
EnvErrorLenient(env) == IF env.kind = "missing" THEN "env_unset" ELSE "none"

\* lines 63-69: which logging.error, if any, ends the call
EnvError(env) ==
    CASE env.kind = "missing" -> "env_unset"
      [] env.s \notin {<<"m","a","i","n","n","e","t">>,
                       <<"t","e","s","t","n","e","t">>} -> "env_invalid"
      [] OTHER -> "none"

\* line 75: not private_key
KeyAbsent(key) == key.kind = "missing" \/ key.s = <<>>

\* ActionOf with "BUY" for a missing action
ActionOfDefaultBuy(t) ==
    CASE ~t.isdict -> [ok |-> FALSE, s |-> <<>>]
      [] t.action.kind = "missing" -> [ok |-> TRUE, s |-> <<"B","U","Y">>]
      [] t.action.kind = "str" -> [ok |-> TRUE, s |-> PyUpper(t.action.s)]
      [] OTHER -> [ok |-> FALSE, s |-> <<>>]

\* line 106: trade.get("action", "HOLD").upper()
ActionOf(t) ==
    CASE ~t.isdict -> [ok |-> FALSE, s |-> <<>>]
      [] t.action.kind = "missing" -> [ok |-> TRUE, s |-> PyUpper(<<"H","O","L","D">>)]
      [] t.action.kind = "str" -> [ok |-> TRUE, s |-> PyUpper(t.action.s)]
      [] OTHER -> [ok |-> FALSE, s |-> <<>>]

\* line 107: action in ("BUY", "SELL")
Tradeable(a) == a \in {<<"B","U","Y">>, <<"S","E","L","L">>}

\* line 110: trade["symbol"].replace("-USD", "").replace("-USDT", "").upper()
SymbolOf(t) ==
    CASE t.symbol.kind = "str" ->
             [ok |-> TRUE, err |-> "",
              s |-> PyUpper(PyRemove(PyRemove(t.symbol.s, <<"-","U","S","D">>),
                                     <<"-","U","S","D","T">>))]
      [] t.symbol.kind = "missing" -> [ok |-> FALSE, err |-> "KeyError", s |-> <<>>]
      [] OTHER -> [ok |-> FALSE, err |-> "AttributeError", s |-> <<>>]

\* line 112: float(trade.get("size_pct", 0.05))
SizePctOf(t) ==
    IF t.size_pct.kind = "missing"
    THEN [ok |-> TRUE, v |-> 5, err |-> ""]
    ELSE PyFloat(t.size_pct)

\* line 113: int(trade.get("leverage", 5))
LeverageOf(t) ==
    IF t.leverage.kind = "missing"
    THEN [ok |-> TRUE, v |-> 5, err |-> ""]
    ELSE PyInt(t.leverage)

\* line 139: max_usdc_risk = 10.0, in hundredths of a USDC
max_usdc_risk == 1000

\* UsdcToUse without line 140
UsdcToUseUncapped(u, pct) == u * pct

\* lines 136-140: usdc_to_use = min(usdc * size_pct, max_usdc_risk)
UsdcToUse(u, pct) == Min(u * pct, max_usdc_risk)

\* line 141: sz = usdc_to_use / price, the fraction (notional / 100) / p
SzOf(notional, p) == [num |-> notional, den |-> 100 * p]

\* TooSmall with 0.0001 for 0.001
TooSmallTenth(q) == q.num * 10000 < q.den

\* the direction inverted
IsBuyInverted(a) == a = <<"S","E","L","L">>

\* line 111: is_buy = action == "BUY"
IsBuy(a) == a = <<"B","U","Y">>

\* no minimum size
TooSmallNever(q) == FALSE

\* line 143: sz < 0.001
TooSmall(q) == q.num * 1000 < q.den

\* lines 159-162
OrderStatus(resp) == IF resp = "ok" THEN "FILLED" ELSE "FAILED"

\* only a negative price taken as no price
NoPriceNegative(p) == p < 0

\* line 123: if price <= 0 (mids.get(symbol, "0") gives 0 for an absent symbol)
NoPrice(p) == p <= 0

\* line 132: if usdc <= 0
NoBalance(u) == u <= 0

\* the price fetch left out after the leverage call
AfterLeverageNoPrice == "state"

\* lines 117-120: the leverage call returned, the price is fetched next
AfterLeverage == "mids"

\* the equity of an earlier entry used again instead of a new fetch
AfterPriceCached == "size"

\* lines 125-127: the price is positive, the account equity is fetched next
AfterPrice == "state"

\* the handler raising again
AfterExceptRaise == "crashed"

\* the handler trying the entry again
AfterExceptRetry == "lev"

\* lines 164-165: except Exception logs and the for loop goes on
AfterExcept == "end"

----------------------------------------------------------------------------
(* Inputs: the environment, the oracle's entries, the exchange's answers *)

DryRunValues ==
    {Missing, Str(<<>>), Str(<<"t","r","u","e">>), Str(<<"T","R","U","E">>),
     Str(<<"1">>), Str(<<"y","e","s">>), Str(<<"f","a","l","s","e">>),
     Str(<<"o","n">>)}

HlEnvValues ==
    {Missing, Str(<<"m","a","i","n","n","e","t">>),
     Str(<<"t","e","s","t","n","e","t">>), Str(<<"p","r","o","d">>)}

KeyValues == {Missing, Str(<<>>), Str(<<"0","x","1">>)}

ActionFields ==
    {Missing, None, Str(<<"B","U","Y">>), Str(<<"b","u","y">>),
     Str(<<"S","E","L","L">>), Str(<<"H","O","L","D">>), Str(<<"h","o","l","d">>),
     Str(<<"L","O","N","G">>)}

SymbolFields ==
    {Missing, None, Str(<<"O","P">>), Str(<<"O","P","-","U","S","D">>),
     Str(<<"o","p","-","u","s","d">>), Str(<<"O","P","-","U","S","D","T">>),
     Str(<<"-","U","S","D">>)}

SizePctFields == {Missing, Num(5), Num(150), Num(0), Num(-10), Str(<<"x">>)}

LeverageFields == {Missing, Num(3), Num(0), Num(50), None}


NotADict ==
    [isdict |-> FALSE, action |-> Missing, symbol |-> Missing,
     size_pct |-> Missing, leverage |-> Missing]

\* the fields in which an entry departs from {"symbol": "OP"}
OddFields(t) ==
    {f \in {"symbol", "size_pct", "leverage"} :
        t[f] # (IF f = "symbol" THEN Str(<<"O","P">>) ELSE Missing)}

\* the entries of the oracle: any action, and at most one other field that
\* departs from {"symbol": "OP"}
Dicts ==
    {t \in [isdict : {TRUE}, action : ActionFields, symbol : SymbolFields,
            size_pct : SizePctFields, leverage : LeverageFields] :
        Cardinality(OddFields(t)) <= 1}

RawTrades == Dicts \cup {NotADict}

\* all_mids()[symbol]: absent, or a price in USDC
Prices == {0, 2000, 10000}

\* user_state()["marginSummary"]["accountValue"] in USDC
Equities == {0, 100, 1000}

NoSz == [num |-> 0, den |-> 1]

----------------------------------------------------------------------------
(* State machine *)

Init ==
    /\ DRY_RUN = Unread
    /\ HL_ENV = Unread
    /\ PRIVATE_KEY = Unread
    /\ pc = "decide"
    /\ n = 0
    /\ response = "none"
    /\ i = 0
    /\ trade = NotADict
    /\ action = <<>>
    /\ symbol = <<>>
    /\ is_buy = FALSE
    /\ size_pct = 0
    /\ leverage = 0
    /\ lev_result = "none"
    /\ price = 0
    /\ usdc = 0
    /\ usdc_to_use = 0
    /\ sz = NoSz
    /\ exchange = FALSE
    /\ calls = <<>>
    /\ outcomes = <<>>
    /\ escaped = "none"

env == <<DRY_RUN, HL_ENV, PRIVATE_KEY>>
parsed == <<action, symbol, is_buy, size_pct, leverage>>
sizing == <<lev_result, price, usdc, usdc_to_use, sz>>

ClearLocals ==
    /\ trade' = NotADict
    /\ action' = <<>>
    /\ symbol' = <<>>
    /\ is_buy' = FALSE
    /\ size_pct' = 0
    /\ leverage' = 0
    /\ lev_result' = "none"
    /\ price' = 0
    /\ usdc' = 0
    /\ usdc_to_use' = 0
    /\ sz' = NoSz

\* the loop body is left with `status` logged for the entry
EndEntry(status, detail) ==
    /\ pc' = "end"
    /\ outcomes' = Append(outcomes, <<i, status, detail>>)

\* lines 164-165: logging.exception, and on to where the handler leads
Caught ==
    /\ pc' = AfterExcept
    /\ outcomes' = Append(outcomes, <<i, "FAILED", "exception">>)

\* what the oracle answers: a failed request, content that is no JSON, JSON
\* without trade_decisions, JSON whose trade_decisions is a number other than
\* 0, or a list of len entries
OracleResponses ==
    [kind : {"http_error", "not_json", "no_key", "not_list"}, len : {0}]
        \cup [kind : {"ok"}, len : 0..MaxBatch]

\* lines 234-256: len(_decide(...)["trade_decisions"]); lines 239, 249-252 and
\* 253-256 return a decision with the list [], line 247 returns the parsed
\* JSON as it is
Decide(resp) == IF resp.kind = "ok" THEN resp.len ELSE 0

\* lines 41 and 47: the truth value of trade_decisions
Truthy(kind, len) == kind = "not_list" \/ len > 0

\* lines 55 and 105: trade_decisions can be iterated
Iterable == response = "ok"

\* lines 36-43: decide_trade
DecideTrade ==
    /\ pc = "decide"
    /\ \E resp \in OracleResponses :
          /\ response' = resp.kind
          /\ n' = Decide(resp)
          /\ pc' = IF Truthy(resp.kind, Decide(resp)) THEN "execute" ELSE "done"
    /\ UNCHANGED <<env, i, trade, parsed, sizing, exchange, calls,
                   outcomes, escaped>>

\* lines 46-57: the dry-run switch
ExecuteTrades ==
    /\ pc = "execute"
    /\ IF ~Truthy(response, n)
       THEN /\ pc' = "done"
            /\ UNCHANGED DRY_RUN
       ELSE \E v \in DryRunValues :
               /\ DRY_RUN' = v
               /\ pc' = IF IsDryRun(v) THEN "dry" ELSE "config"
    /\ UNCHANGED <<HL_ENV, PRIVATE_KEY, n, response, i, trade, parsed, sizing, exchange,
                   calls, outcomes, escaped>>

\* lines 55-57: one [DRY-RUN] line per entry, then return
DryRunEcho ==
    /\ pc = "dry"
    /\ Iterable
    /\ IF i < n
       THEN \E t \in RawTrades :
               /\ trade' = t
               /\ i' = i + 1
               /\ outcomes' = Append(outcomes, <<i + 1, "SIMULATED", "dry_run">>)
               /\ pc' = "dry"
       ELSE /\ pc' = "done"
            /\ UNCHANGED <<trade, i, outcomes>>
    /\ UNCHANGED <<env, n, response, parsed, sizing, exchange, calls, escaped>>

\* logging.error and return
ConfigError(detail) ==
    /\ pc' = "done"
    /\ outcomes' = Append(outcomes, <<0, "CONFIG_ERROR", detail>>)
    /\ UNCHANGED exchange

\* lines 63-103: environment, key, wallet, Exchange(...)
Configure ==
    /\ pc = "config"
    /\ \E e \in HlEnvValues, key \in KeyValues,
          keyOk \in BOOLEAN, exchangeOk \in BOOLEAN :
          /\ HL_ENV' = e
          /\ IF EnvError(e) # "none"
             THEN ConfigError(EnvError(e)) /\ UNCHANGED PRIVATE_KEY  \* 64-69
             ELSE /\ PRIVATE_KEY' = key
                  /\ IF KeyAbsent(key) THEN ConfigError("key_missing")  \* 75-77
                     ELSE IF ~keyOk THEN ConfigError("key_invalid")     \* 82-86
                     ELSE IF ~exchangeOk THEN ConfigError("exchange")   \* 94-103
                     ELSE /\ exchange' = TRUE
                          /\ pc' = "loop"
                          /\ UNCHANGED outcomes
    /\ UNCHANGED <<DRY_RUN, n, response, i, trade, parsed, sizing, calls, escaped>>

\* an exchange call is issued for the entry the loop is at; its arguments
\* are the locals of that state
Call(op) == calls' = Append(calls, <<i, op>>)

\* an exception leaves _execute_trades and decide_trade
Crash(kind) ==
    /\ pc' = "crashed"
    /\ escaped' = kind
    /\ UNCHANGED <<sizing, outcomes>>

\* line 105, the loop is over: return
LoopExit ==
    /\ pc = "loop"
    /\ Iterable
    /\ i = n
    /\ pc' = "done"
    /\ UNCHANGED <<env, n, response, i, trade, parsed, sizing, exchange, calls,
                   outcomes, escaped>>

\* lines 55 and 105: for trade in decisions, where decisions is a number,
\* raises TypeError, in the dry run as well as after the configuration
IterateNumber ==
    /\ pc \in {"dry", "loop"}
    /\ ~Iterable
    /\ Crash("TypeError")
    /\ UNCHANGED <<env, response, n, i, trade, parsed, exchange, calls>>

\* line 113
ReadLeverage(t) ==
    IF ~LeverageOf(t).ok
    THEN Crash(LeverageOf(t).err) /\ UNCHANGED leverage
    ELSE /\ leverage' = LeverageOf(t).v
         /\ pc' = "lev"
         /\ UNCHANGED <<sizing, outcomes, escaped>>

\* line 112
ReadSizePct(t) ==
    IF ~SizePctOf(t).ok
    THEN Crash(SizePctOf(t).err) /\ UNCHANGED <<size_pct, leverage>>
    ELSE /\ size_pct' = SizePctOf(t).v
         /\ ReadLeverage(t)

\* lines 110-111
ReadSymbol(t) ==
    IF ~SymbolOf(t).ok
    THEN Crash(SymbolOf(t).err) /\ UNCHANGED <<symbol, is_buy, size_pct, leverage>>
    ELSE /\ symbol' = SymbolOf(t).s
         /\ is_buy' = IsBuy(ActionOf(t).s)
         /\ ReadSizePct(t)

\* lines 106-108
ReadAction(t) ==
    IF ~ActionOf(t).ok
    THEN Crash("AttributeError") /\ UNCHANGED parsed
    ELSE /\ action' = ActionOf(t).s
         /\ IF ~Tradeable(ActionOf(t).s)
            THEN /\ pc' = "end"                                     \* continue
                 /\ UNCHANGED <<symbol, is_buy, size_pct, leverage, sizing,
                                outcomes, escaped>>
            ELSE ReadSymbol(t)

\* lines 105-113: the next entry is taken and read
NextTrade ==
    /\ pc = "loop"
    /\ Iterable
    /\ i < n
    /\ i' = i + 1
    /\ \E t \in RawTrades :
          /\ trade' = t
          /\ ReadAction(t)
    /\ UNCHANGED <<env, n, response, exchange, calls>>

\* line 117: exchange.update_leverage(leverage, symbol). The call raises or
\* answers {"status": "ok"} or {"status": "err"}; the answer is bound to no
\* name and line 120 follows whatever it was. lev_result keeps what the
\* exchange answered.
UpdateLeverage ==
    /\ pc = "lev"
    /\ Call("update_leverage")
    /\ \E resp \in {"ok", "err", "raise"} :
          /\ lev_result' = resp
          /\ IF resp = "raise" THEN Caught
             ELSE /\ pc' = AfterLeverage
                  /\ UNCHANGED outcomes
    /\ UNCHANGED <<env, n, response, i, trade, parsed, price, usdc, usdc_to_use, sz,
                   exchange, escaped>>

\* lines 120-125: Info(...).all_mids(), price = float(mids.get(symbol, "0"))
FetchPrice ==
    /\ pc = "mids"
    /\ Call("all_mids")
    /\ \E raised \in BOOLEAN, resp \in Prices :
          IF raised THEN Caught /\ UNCHANGED price
          ELSE /\ price' = resp
               /\ IF NoPrice(resp) THEN EndEntry("SKIPPED", "no_price") \* 125
                  ELSE /\ pc' = AfterPrice
                       /\ UNCHANGED outcomes
    /\ UNCHANGED <<env, n, response, i, trade, parsed, lev_result, usdc, usdc_to_use, sz,
                   exchange, escaped>>

\* lines 127-134: info.user_state(account_address), usdc = float(accountValue)
FetchEquity ==
    /\ pc = "state"
    /\ Call("user_state")
    /\ \E raised \in BOOLEAN, resp \in Equities :
          IF raised THEN Caught /\ UNCHANGED usdc
          ELSE /\ usdc' = resp
               /\ IF NoBalance(resp) THEN EndEntry("SKIPPED", "no_balance") \* 134
                  ELSE /\ pc' = "size"
                       /\ UNCHANGED outcomes
    /\ UNCHANGED <<env, n, response, i, trade, parsed, lev_result, price, usdc_to_use, sz,
                   exchange, escaped>>

\* lines 136-145: the notional, the size, the minimum size
SizeOrder ==
    /\ pc = "size"
    /\ usdc_to_use' = UsdcToUse(usdc, size_pct)
    /\ sz' = SzOf(usdc_to_use', price)
    /\ IF TooSmall(sz') THEN EndEntry("SKIPPED", "too_small")        \* line 145
       ELSE /\ pc' = "order"
            /\ UNCHANGED outcomes
    /\ UNCHANGED <<env, n, response, i, trade, parsed, lev_result, price, usdc, exchange,
                   calls, escaped>>

\* lines 150-162: exchange.market_open(symbol, is_buy, sz, 0.015) and its answer
MarketOpen ==
    /\ pc = "order"
    /\ Call("market_open")
    /\ \E resp \in {"ok", "err", "raise"} :
          IF resp = "raise" THEN Caught
          ELSE EndEntry(OrderStatus(resp), "response")
    /\ UNCHANGED <<env, n, response, i, trade, parsed, sizing, exchange, escaped>>

\* the loop body is over (lines 108, 125, 134, 145, 162, 165): back to line 105
EndBody ==
    /\ pc = "end"
    /\ pc' = "loop"
    /\ ClearLocals
    /\ UNCHANGED <<env, n, response, i, exchange, calls, outcomes, escaped>>

Next ==
    \/ DecideTrade
    \/ ExecuteTrades
    \/ DryRunEcho
    \/ Configure
    \/ IterateNumber
    \/ LoopExit
    \/ NextTrade
    \/ UpdateLeverage
    \/ FetchPrice
    \/ FetchEquity
    \/ SizeOrder
    \/ MarketOpen
    \/ EndBody

Spec == Init /\ [][Next]_vars

----------------------------------------------------------------------------
(* Claims *)

Issued(k, op) == \E c \in 1..Len(calls) : calls[c] = <<k, op>>
CallsFor(k) == {c \in 1..Len(calls) : calls[c][1] = k}
Logged(k, status) ==
    \E o \in 1..Len(outcomes) : outcomes[o][1] = k /\ outcomes[o][2] = status

\* the values of DRY_RUN that switch the simulation on
SimulationOn ==
    DRY_RUN \in {Missing, Str(<<"t","r","u","e">>), Str(<<"T","R","U","E">>),
                 Str(<<"1">>), Str(<<"y","e","s">>)}

\* C1: in simulation mode no exchange client is constructed, no exchange call
\* is issued, and every entry of a batch (a list of entries) gets exactly one
\* SIMULATED line, in order.
C1_SimulationIssuesNoCall ==
    SimulationOn =>
        /\ ~exchange
        /\ calls = <<>>
        /\ Len(outcomes) = i
        /\ \A k \in 1..i : outcomes[k] = <<k, "SIMULATED", "dry_run">>
        /\ Iterable =>
              /\ pc \in {"dry", "done"}
              /\ pc = "done" => i = n

C1_Witness ==
    /\ pc = "done"
    /\ DRY_RUN = Str(<<"T","R","U","E">>)
    /\ n = 2
    /\ outcomes = << <<1, "SIMULATED", "dry_run">>, <<2, "SIMULATED", "dry_run">> >>

\* C2: unless DRY_RUN is set to an explicit disabling value ("false"), no
\* order is submitted to the exchange.
C2_SimulationUnlessDisabled ==
    DRY_RUN # Str(<<"f","a","l","s","e">>) =>
        ~\E k \in 1..n : Issued(k, "market_open")

\* C3: an exception of an exchange call for entry k is logged as FAILED for
\* k and ends neither the loop nor the call: the run returns only after all
\* n entries were taken, and an exception that does leave comes from reading
\* a later entry.
C3_ExchangeExceptionIsolated ==
    \A o \in 1..Len(outcomes) :
        outcomes[o][3] = "exception" =>
            /\ outcomes[o][2] = "FAILED"
            /\ pc = "done" => i = n
            /\ pc = "crashed" => i > outcomes[o][1] /\ escaped # "none"

C3_Witness ==
    /\ pc = "done"
    /\ n = 2
    /\ Issued(1, "market_open")
    /\ outcomes = << <<1, "FAILED", "exception">>, <<2, "FILLED", "response">> >>

\* C4: a malformed entry (a record with a missing symbol, an action that is
\* no string, a size_pct or leverage that is no number) never raises a fatal
\* error: no exception leaves the call.
C4_BadEntryNeverFatal ==
    trade.isdict =>
        /\ pc # "crashed"
        /\ escaped = "none"

\* C5: for an entry whose size_pct is <= 0 or > 1, or whose action is none
\* of BUY, SELL, HOLD, no exchange call of any kind is issued.
C5_InvalidEntryNeverExecuted ==
    (/\ trade.isdict
     /\ \/ trade.size_pct.kind = "num"
           /\ (trade.size_pct.v <= 0 \/ trade.size_pct.v > 100)
        \/ trade.action.kind = "str"
           /\ trade.action.s \notin {<<"B","U","Y">>, <<"b","u","y">>,
                                     <<"S","E","L","L">>, <<"H","O","L","D">>,
                                     <<"h","o","l","d">>})
        => CallsFor(i) = {}

\* an entry whose action is HOLD in some letter case, or missing
HoldEntry(t) ==
    /\ t.isdict
    /\ t.action \in {Missing, Str(<<"H","O","L","D">>), Str(<<"h","o","l","d">>)}

\* C6: for an entry with action HOLD (any letter case) or without action, no
\* exchange call is issued, whatever the other entries of the batch did.
C6_HoldIssuesNoCall ==
    HoldEntry(trade) =>
        /\ pc \in {"end", "dry", "done"}
        /\ CallsFor(i) = {}

C6_Witness ==
    /\ pc = "end"
    /\ trade.action = Str(<<"h","o","l","d">>)
    /\ i = 2
    /\ Issued(1, "market_open")
    /\ CallsFor(2) = {}

\* C7: no exchange call is issued twice for the same entry: after a failure
\* or a non-success answer nothing is tried again, and market_open is called
\* at most once per entry.
C7_NoCallReissued ==
    \A a \in 1..Len(calls) : \A b \in (a + 1)..Len(calls) : calls[a] # calls[b]

C7_Witness ==
    /\ pc = "done"
    /\ n = 2
    /\ outcomes = << <<1, "FAILED", "response">>, <<2, "FAILED", "exception">> >>
    /\ Cardinality(CallsFor(1)) = 4
    /\ Issued(2, "market_open")

\* the sizing of lines 136-141 has run for the entry the loop is at
Sized == pc \in {"order", "end"} /\ usdc > 0

\* C8: the notional used for sizing is min(equity * size_pct, 10.0), exactly
\* 10.0 when equity * size_pct exceeds it; equity 1000, size_pct 0.05 and
\* price 2000 give the notional 10 and the size 0.005.
C8_NotionalCapped ==
    Sized =>
        /\ usdc_to_use = (IF usdc * size_pct > 1000 THEN 1000 ELSE usdc * size_pct)
        /\ sz = [num |-> usdc_to_use, den |-> 100 * price]
        /\ (usdc = 1000 /\ size_pct = 5 /\ price = 2000) =>
              /\ usdc_to_use = 1000
              /\ sz.num * 1000 = 5 * sz.den

C8_Witness ==
    /\ pc = "order"
    /\ usdc = 1000
    /\ size_pct = 5
    /\ price = 2000
    /\ usdc_to_use = 1000

\* C9: an entry whose computed size is below 0.001 is logged as SKIPPED,
\* never FAILED or FILLED, no market_open is issued for it, and the loop goes
\* on to the next entry.
C9_BelowMinimumIsSkipped ==
    /\ (Sized /\ sz.num * 1000 < sz.den) =>
          /\ pc = "end"
          /\ outcomes[Len(outcomes)] = <<i, "SKIPPED", "too_small">>
          /\ ~Issued(i, "market_open")
          /\ ~Logged(i, "FAILED")
          /\ ~Logged(i, "FILLED")
    /\ \A o \in 1..Len(outcomes) :
          outcomes[o][3] = "too_small" =>
              /\ pc = "done" => i = n
              /\ pc = "crashed" => i > outcomes[o][1]

C9_Witness ==
    /\ pc = "order"
    /\ i = 2
    /\ outcomes = << <<1, "SKIPPED", "too_small">> >>
    /\ ~Issued(1, "market_open")

\* the run ended on a configuration error, logged once, before any exchange
\* client or call
AbortedOnce ==
    /\ pc = "done"
    /\ ~exchange
    /\ calls = <<>>
    /\ Len(outcomes) = 1
    /\ outcomes[1][2] = "CONFIG_ERROR"

\* C10: with the simulation off, an environment selector that is unset or
\* neither "mainnet" nor "testnet", a missing or invalid private key, or an
\* exchange client that cannot be constructed ends the call before any
\* exchange call, with the error logged exactly once.
C10_ConfigErrorAbortsBatch ==
    /\ (HL_ENV # Unread /\ HL_ENV \notin {Str(<<"m","a","i","n","n","e","t">>),
                                          Str(<<"t","e","s","t","n","e","t">>)})
          => AbortedOnce
    /\ PRIVATE_KEY \in {Missing, Str(<<>>)} => AbortedOnce
    /\ Logged(0, "CONFIG_ERROR") => AbortedOnce
    /\ calls # <<>> => exchange

C10_Witness ==
    /\ pc = "done"
    /\ n = 2
    /\ DRY_RUN = Str(<<"f","a","l","s","e">>)
    /\ HL_ENV = Str(<<"p","r","o","d">>)
    /\ outcomes = << <<0, "CONFIG_ERROR", "env_invalid">> >>

\* C11: when update_leverage fails for an entry, by an error answer or by an
\* exception, the entry ends as FAILED with no market_open issued for it, and
\* the loop goes on to the remaining entries.
C11_LeverageFailureFailsEntry ==
    lev_result \in {"err", "raise"} =>
        /\ pc \notin {"order", "crashed"}
        /\ ~Issued(i, "market_open")
        /\ pc = "end" => outcomes[Len(outcomes)] = <<i, "FAILED", "exception">>

\* an exchange call of the entry the loop is at has raised
RaisedHere == \E o \in 1..Len(outcomes) : outcomes[o] = <<i, "FAILED", "exception">>

\* the answer of all_mids, or of user_state, for the entry the loop is at was
\* read into price, or usdc
PriceRead == pc \in {"state", "size", "order", "end"} /\ Issued(i, "all_mids")
                 /\ (RaisedHere => Issued(i, "user_state"))
EquityRead == pc \in {"size", "order", "end"} /\ Issued(i, "user_state")
                 /\ (RaisedHere => Issued(i, "market_open"))

\* C12: an entry whose mid price is absent or not positive, or whose account
\* equity is not positive, is logged as SKIPPED with no later call and no
\* market_open for it, and the loop goes on to the remaining entries.
C12_NoDataIsSkipped ==
    /\ (PriceRead /\ price <= 0) =>
          /\ pc = "end"
          /\ outcomes[Len(outcomes)] = <<i, "SKIPPED", "no_price">>
          /\ calls[Len(calls)] = <<i, "all_mids">>
          /\ ~Issued(i, "market_open")
    /\ (EquityRead /\ usdc <= 0) =>
          /\ pc = "end"
          /\ outcomes[Len(outcomes)] = <<i, "SKIPPED", "no_balance">>
          /\ calls[Len(calls)] = <<i, "user_state">>
          /\ ~Issued(i, "market_open")
    /\ \A o \in 1..Len(outcomes) :
          outcomes[o][3] \in {"no_price", "no_balance"} =>
              /\ outcomes[o][2] = "SKIPPED"
              /\ ~Issued(outcomes[o][1], "market_open")
              /\ pc = "done" => i = n
              /\ pc = "crashed" => i > outcomes[o][1]

C12_Witness ==
    /\ pc = "order"
    /\ i = 2
    /\ outcomes = << <<1, "SKIPPED", "no_price">> >>
    /\ calls = << <<1, "update_leverage">>, <<1, "all_mids">>,
                  <<2, "update_leverage">>, <<2, "all_mids">>, <<2, "user_state">> >>

\* the outcomes logged for entry k
OutcomesFor(k) == {o \in 1..Len(outcomes) : outcomes[o][1] = k}

\* C13: the outcomes of a batch are one FILLED, SKIPPED, FAILED or SIMULATED
\* per BUY or SELL entry, in the order of the entries, and none for a HOLD
\* entry.
C13_OneOutcomePerTradedEntry ==
    /\ \A o \in 1..Len(outcomes) :
          outcomes[o][1] >= 1 =>
              outcomes[o][2] \in {"FILLED", "SKIPPED", "FAILED", "SIMULATED"}
    /\ \A o, q \in 1..Len(outcomes) : o < q => outcomes[o][1] < outcomes[q][1]
    /\ (pc = "end" /\ Tradeable(action)) => Cardinality(OutcomesFor(i)) = 1
    /\ HoldEntry(trade) => OutcomesFor(i) = {}

\* the oracle's answer is no list of entries: the request failed, the content
\* is no JSON, the JSON has no trade_decisions, or trade_decisions is no list
Malformed == response \in {"http_error", "not_json", "no_key", "not_list"}

\* C14: after a malformed answer of the oracle the decision is empty: no
\* exception leaves decide_trade, nothing is executed and no exchange call is
\* issued.
C14_MalformedResponseIsEmpty ==
    Malformed =>
        /\ pc # "crashed"
        /\ escaped = "none"
        /\ n = 0
        /\ calls = <<>>

\* update_leverage was called for the entry the loop is at, with the local
\* leverage as its argument
LeverageCall == pc \in {"mids", "state", "size", "order", "end"}
                   /\ Issued(i, "update_leverage")

\* C15: update_leverage is never called with a leverage that is not positive
\* or that is above the ceiling (10, the limit the system prompt of line 175
\* names), and no order follows such a leverage; an entry without leverage
\* uses 5.
C15_LeverageValidated ==
    LeverageCall =>
        /\ leverage >= 1
        /\ leverage <= 10
        /\ trade.leverage = Missing => leverage = 5

\* the spellings of the base OP the oracle may use
SpellingsOfOP ==
    {Str(<<"O","P">>), Str(<<"O","P","-","U","S","D">>),
     Str(<<"o","p","-","u","s","d">>), Str(<<"O","P","-","U","S","D","T">>)}

\* an exchange call was issued for the entry the loop is at
CalledHere == pc \in {"mids", "state", "size", "order", "end"} /\ CallsFor(i) # {}

\* C16: the symbol sent to the exchange for OP, OP-USD or OP-USDT in any
\* letter case is OP, and a symbol that is empty after stripping is never
\* sent to the exchange.
C16_SymbolNormalized ==
    CalledHere =>
        /\ trade.symbol \in SpellingsOfOP => symbol = <<"O","P">>
        /\ symbol # <<>>

\* C17: the equity an entry is sized with is read from the exchange for that
\* entry: user_state is the call right before the sizing and right before
\* every market_open, for the same entry, and so comes after the market_open
\* of every earlier entry.
C17_EquityReadPerEntry ==
    /\ pc \in {"size", "order"} =>
          /\ calls # <<>>
          /\ calls[Len(calls)] = <<i, "user_state">>
    /\ \A a \in 1..Len(calls) :
          calls[a][2] = "market_open" =>
              /\ a > 1
              /\ calls[a - 1] = <<calls[a][1], "user_state">>
    /\ \A b \in 1..Len(calls) :
          calls[b][2] = "user_state" =>
              \A a \in (b + 1)..Len(calls) :
                  ~(calls[a][2] = "market_open" /\ calls[a][1] < calls[b][1])

C17_Witness ==
    /\ pc = "order"
    /\ i = 2
    /\ usdc = 100
    /\ outcomes = << <<1, "FILLED", "response">> >>
    /\ calls = << <<1, "update_leverage">>, <<1, "all_mids">>, <<1, "user_state">>,
                  <<1, "market_open">>,
                  <<2, "update_leverage">>, <<2, "all_mids">>, <<2, "user_state">> >>

\* the exchange calls of one entry, in the order of lines 117, 121, 130, 150
OpOrder == <<"update_leverage", "all_mids", "user_state", "market_open">>

\* C18: the calls issued for one entry are a prefix of update_leverage,
\* all_mids, user_state, market_open, and all calls of an entry come before
\* any call of a later entry.
C18_CallsInOrder ==
    \A a \in 1..Len(calls) :
        IF a = 1 \/ calls[a - 1][1] # calls[a][1]
        THEN /\ calls[a][2] = OpOrder[1]
             /\ a > 1 => calls[a - 1][1] < calls[a][1]
        ELSE \E j \in 1..3 : /\ calls[a - 1][2] = OpOrder[j]
                             /\ calls[a][2] = OpOrder[j + 1]

C18_Witness ==
    /\ pc = "end"
    /\ i = 2
    /\ calls = << <<1, "update_leverage">>, <<1, "all_mids">>,
                  <<2, "update_leverage">>, <<2, "all_mids">>, <<2, "user_state">>,
                  <<2, "market_open">> >>

\* market_open is about to be called, or was called, for the entry the loop
\* is at; its arguments are the locals symbol, is_buy and sz
OrderCall == pc = "order" \/ (pc = "end" /\ Issued(i, "market_open"))

\* C19: every market_open carries a size of at least 0.001 whose notional
\* sz * price is at most 10.0 USDC, and is issued only after a positive price
\* and a positive equity were read for the same entry, whatever size_pct the
\* entry asked for.
C19_OrderWithinBounds ==
    OrderCall =>
        /\ sz.num * 1000 >= sz.den
        /\ sz.num * price <= 10 * sz.den
        /\ price > 0
        /\ usdc > 0
        /\ Issued(i, "all_mids")
        /\ Issued(i, "user_state")

C19_Witness ==
    /\ pc = "end"
    /\ Issued(i, "market_open")
    /\ trade.size_pct = Num(150)
    /\ usdc = 1000
    /\ price = 2000
    /\ usdc_to_use = 1000
    /\ sz = [num |-> 1000, den |-> 200000]

\* C20: market_open is called with is_buy true exactly when the action of the
\* entry is BUY in some letter case and false when it is SELL, and with the
\* symbol normalised from the symbol of that same entry.
C20_DirectionFollowsAction ==
    OrderCall =>
        /\ trade.action \in {Str(<<"B","U","Y">>), Str(<<"b","u","y">>),
                             Str(<<"S","E","L","L">>)}
        /\ is_buy <=> trade.action \in {Str(<<"B","U","Y">>), Str(<<"b","u","y">>)}
        /\ ~is_buy <=> trade.action = Str(<<"S","E","L","L">>)
        /\ trade.symbol \in {Str(<<"O","P">>), Str(<<"O","P","-","U","S","D">>)}
              => symbol = <<"O","P">>
        /\ symbol = SymbolOf(trade).s

C20_Witness ==
    /\ pc = "end"
    /\ i = 2
    /\ Issued(1, "market_open")
    /\ Issued(2, "market_open")
    /\ trade.action = Str(<<"S","E","L","L">>)
    /\ trade.symbol = Str(<<"O","P","-","U","S","D">>)
    /\ ~is_buy
    /\ symbol = <<"O","P">>

====
